---- MODULE Spec2Model ----
(***************************************************************************)
(* Model of the payment agents of the Justin Wallet backend:               *)
(*   backend/agents/payment_agent.py        single-payment sessions        *)
(*   backend/agents/multi_payment_agent.py  batch sessions, scheduler      *)
(* Specifications: Spec (single sessions), SpecBatch and SpecTotals (batch *)
(* sessions), SpecSched (scheduler), SpecRegistry (both registries, with   *)
(* starts on ids in use), SpecProbe (check_x402_url on one response).      *)
(*                                                                         *)
(* A graph invocation (app.ainvoke) is modelled as taking the input state  *)
(* by value and returning a new state: the nodes run on the input that was *)
(* handed in when the call was made, and the caller stores the result.     *)
(* approve_payment passes resume_from="execute": the run starts at the     *)
(* node "execute" and follows the edges of create_payment_agent from it.   *)
(* Python's None is written None ("None"); an absent payment_request is    *)
(* NonePayment.                                                            *)
(***************************************************************************)
EXTENDS Integers, Sequences, FiniteSets, TLC

VARIABLES
    sessions,   \* PaymentAgentRunner.sessions: session id -> AgentState
    approving,  \* approve_payment calls suspended at their await: id -> input state
    hist,       \* history: per session id, the calls made on it since its start
    batches,    \* MultiPaymentRunner.sessions: session id -> MultiPaymentState
    bhist,      \* history: per batch id, the calls made on it since start_batch
    last,       \* history: the call that was made last, with its inputs
    user_schedules, \* SchedulerRunner.user_schedules: payer -> list of entries
    clock,      \* datetime.now(), in time units
    fired,      \* history: per entry id, the times at which cycles fired it
    cycling,    \* check_and_execute calls between their two passes: payer -> call
    http_response, \* the outcome of client.get(url) handed to check_x402_url
    parsed      \* what check_x402_url returned for it

schedVars == <<user_schedules, clock, fired, cycling>>

probeVars == <<http_response, parsed>>

agentVars == <<sessions, approving, hist, batches, bhist>>

vars == <<sessions, approving, hist, batches, bhist, last, user_schedules, clock,
          fired, cycling, http_response, parsed>>

----------------------------------------------------------------------------
(* Bounds and input sets *)

MaxCalls == 4
MaxLegs == 2
MaxBatchOps == 3
MaxClock == 4
MaxFrameCalls == 1
MaxTotalLegs == 3

None == "None"

SessionIds == {"s1"}
Users == {"0xUser"}
Urls == {"https://api.example/resource"}
TaskTypes == {"check_url", "negotiate", "pay"}
TxHashes == {"", "0xabc"}
AdvisoryTexts == {"acceptable", "too high, offer 5"}

NonePayment ==
    [url |-> None, amount |-> None, token |-> None, receiver |-> None, realm |-> None]

\* Python truthiness of an Optional[str]
Truthy(x) == x \notin {None, ""}

EmptyMap == [x \in {} |-> None]

Put(f, k, v) == [x \in (DOMAIN f) \cup {k} |-> IF x = k THEN v ELSE f[x]]

Drop(f, k) == [x \in (DOMAIN f) \ {k} |-> f[x]]

Msg(role, tag, payment, text) ==
    [role |-> role, tag |-> tag, payment |-> payment, text |-> text]

HasIntent(msgs) == \E i \in 1..Len(msgs) : msgs[i].tag = "EXECUTE_PAYMENT"

----------------------------------------------------------------------------
(* check_x402_url: the values it can return, by the branch that returns *)

PaymentRequests(url) ==
    { [url |-> url, amount |-> "10", token |-> "USDC", receiver |-> "0xRecv",
       realm |-> "Access to resource"] }

ProbeResult(kind, rp, pr, content, error) ==
    [kind |-> kind, requires_payment |-> rp, payment_request |-> pr,
     content |-> content, error |-> error]

\* kind names the branch; str(e) of an exception may be the empty string
check_x402_url(url) ==
    { ProbeResult("demand", TRUE, pr, None, None) : pr \in PaymentRequests(url) }
    \cup
    { ProbeResult("parse_error", TRUE, NonePayment, None,
                  "Could not parse payment details from 402 response"),
      ProbeResult("free", FALSE, NonePayment, "page", None),
      ProbeResult("http_status", FALSE, NonePayment, None, "Request failed with status 500"),
      ProbeResult("network_error", FALSE, NonePayment, None, "connection refused"),
      ProbeResult("network_error", FALSE, NonePayment, None, "") }

----------------------------------------------------------------------------
(* check_x402_url on one outcome of client.get(url)                         *)
(*                                                                          *)
(* A WWW-Authenticate header is its scheme and its comma separated parts;   *)
(* a part is key=value (eq) or a word without "=", and its value may be     *)
(* written in quotes.  A Payment-Amount header is its whitespace separated  *)
(* tokens, each with its number of "=" signs.  A body is its JSON reading:  *)
(* "invalid", "list" or "dict" with the keys it holds (None: key absent).   *)

Part(key, val, quoted) == [eq |-> TRUE, key |-> key, val |-> val, quoted |-> quoted]

Word(text) == [eq |-> FALSE, key |-> text, val |-> "", quoted |-> FALSE]

Header(scheme, parts) == [scheme |-> scheme, parts |-> parts]

WwwAuthenticates ==
    { Header("", <<>>),
      Header("Bearer", <<Part("realm", "api", TRUE)>>),
      Header("x402", <<Part("realm", "premium", TRUE), Word("paywall")>>),
      Header("x402", <<Part("amount", "10", TRUE)>>),
      Header("X402", <<Part("amount", "10", TRUE),
                       Part("receiver", "0xRecv", TRUE)>>),
      Header("x402", <<Part("amount", "10", TRUE), Part("token", "DAI", FALSE),
                       Part("receiver", "0xRecv", TRUE)>>) }

Token(k, v, eqs) == [k |-> k, v |-> v, eqs |-> eqs]

PaymentAmounts ==
    { <<>>,
      <<Token("free", "", 0)>>,
      <<Token("amount", "99", 1)>>,
      <<Token("amount", "99", 1), Token("currency", "ETH", 1)>>,
      <<Token("amount", "1=2", 2)>> }

AcceptPayments == {"", "crypto", "crypto; address=0xOther"}

Json(kind, amount, receiver, address, token) ==
    [json |-> kind, amount |-> amount, receiver |-> receiver,
     address |-> address, token |-> token]

Bodies ==
    { Json("invalid", None, None, None, None),
      Json("list", None, None, None, None),
      Json("dict", None, None, None, None),
      Json("dict", "7", "0xBody", None, "WETH"),
      Json("dict", "7", None, "0xAddr", None) }

Response(exc, status, www_auth, payment_amount, accept_payment, body) ==
    [exc |-> exc, status |-> status, www_auth |-> www_auth,
     payment_amount |-> payment_amount, accept_payment |-> accept_payment,
     body |-> body]

NoResponse ==
    Response(None, 0, Header("", <<>>), <<>>, "", Json("invalid", None, None, None, None))

Responses ==
    { Response(None, 402, w, p, a, b) :
        w \in WwwAuthenticates, p \in PaymentAmounts, a \in AcceptPayments,
        b \in Bodies }
    \cup { Response(None, st, Header("", <<>>), <<>>, "", b) :
             st \in {200, 500}, b \in Bodies }
    \cup { Response(exc, 0, Header("", <<>>), <<>>, "",
                    Json("invalid", None, None, None, None)) :
             exc \in {"connection refused", ""} }

\* str.lower() on the schemes
Lower(s) == IF s = "X402" THEN "x402" ELSE s

\* val.strip('"\''): the value without the quotes it was written in
StripQuotes(part) == part.val

\* re.search(r'address=([^;,\s]+)', accept_payment): group(1), or None
AddressMatch(accept_payment) ==
    IF accept_payment = "crypto; address=0xOther" THEN "0xOther" ELSE None

\* Python's `a or b` on strings
OrElse(a, b) == IF a # "" THEN a ELSE b

\* dict.get(key, default)
Get(value, default) == IF value = None THEN default ELSE value

Fields(amount, token, receiver, realm) ==
    [amount |-> amount, token |-> token, receiver |-> receiver, realm |-> realm]

\* the loop over the parts of the WWW-Authenticate header
RECURSIVE ParseWwwAuthenticate(_, _)
ParseWwwAuthenticate(f, parts) ==
    IF parts = <<>> THEN f
    ELSE LET part == Head(parts)
             g == IF part.eq /\ part.key \in {"amount", "token", "receiver", "realm"}
                  THEN [f EXCEPT ![part.key] = StripQuotes(part)]
                  ELSE f
         IN ParseWwwAuthenticate(g, Tail(parts))

\* the loop over the tokens of the Payment-Amount header (none of which raises)
RECURSIVE ParsePaymentAmount(_, _)
ParsePaymentAmount(f, tokens) ==
    IF tokens = <<>> THEN f
    ELSE LET p == Head(tokens)
             g == IF p.eqs = 0 THEN f
                  ELSE IF p.k = "amount" THEN [f EXCEPT !.amount = p.v]
                  ELSE IF p.k = "currency" THEN [f EXCEPT !.token = p.v]
                  ELSE f
         IN ParsePaymentAmount(g, Tail(tokens))

\* k, v = p.split('=') on a token with more than one "=": ValueError
PaymentAmountRaises(tokens) ==
    \E i \in 1..Len(tokens) : tokens[i].eqs > 1

ParseAcceptPayment(f, accept_payment) ==
    IF accept_payment # "" /\ AddressMatch(accept_payment) # None
    THEN [f EXCEPT !.receiver = AddressMatch(accept_payment)]
    ELSE f

\* the JSON fallback; response.json() on an invalid body and data.get on a
\* list raise, and the bare except leaves the fields as they were
ParseBody(f, body) ==
    IF (f.amount = "" \/ f.receiver = "") /\ body.json = "dict"
    THEN [f EXCEPT
            !.amount = OrElse(f.amount, Get(body.amount, "")),
            !.receiver = OrElse(f.receiver,
                                Get(body.receiver, Get(body.address, ""))),
            !.token = OrElse(f.token, Get(body.token, "USDC"))]
    ELSE f

ParseDemand(r) ==
    LET f0 == Fields("", "USDC", "", "Access to resource")
        f1 == IF Lower(r.www_auth.scheme) = "x402"
              THEN ParseWwwAuthenticate(f0, r.www_auth.parts) ELSE f0
        f2 == ParsePaymentAmount(f1, r.payment_amount)
        f3 == ParseAcceptPayment(f2, r.accept_payment)
    IN ParseBody(f3, r.body)

\* check_x402_url after client.get returned r or raised r.exc
check_x402_response(url, r) ==
    IF r.exc # None
    THEN ProbeResult("network_error", FALSE, NonePayment, None, r.exc)
    ELSE IF r.status = 402 THEN
        IF PaymentAmountRaises(r.payment_amount)
        THEN ProbeResult("parse_exception", FALSE, NonePayment, None,
                         "too many values to unpack (expected 2)")
        ELSE LET f == ParseDemand(r)
             IN IF f.amount # "" /\ f.receiver # ""
                THEN ProbeResult("demand", TRUE,
                        [url |-> url, amount |-> f.amount, token |-> f.token,
                         receiver |-> f.receiver, realm |-> f.realm], None, None)
                ELSE ProbeResult("parse_error", TRUE, NonePayment, None,
                        "Could not parse payment details from 402 response")
    ELSE IF r.status = 200
    THEN ProbeResult("free", FALSE, NonePayment, "page", None)
    ELSE ProbeResult("http_status", FALSE, NonePayment, None,
                     "Request failed with status 500")

NotProbed == ProbeResult("none", FALSE, NonePayment, None, None)

\* one call of check_x402_url
probe(url) ==
    /\ parsed = NotProbed
    /\ parsed' = check_x402_response(url, http_response)
    /\ UNCHANGED <<agentVars, schedVars, last, http_response>>
----------------------------------------------------------------------------
(* Graph nodes of the single-payment agent *)

check_url_node(state, result) ==
    LET s1 == [state EXCEPT !.requires_payment = result.requires_payment,
                            !.payment_request = result.payment_request,
                            !.content = result.content]
    IN  IF Truthy(result.error)
        THEN [s1 EXCEPT !.error = result.error, !.status = "failed"]
        ELSE IF s1.requires_payment
        THEN [s1 EXCEPT !.status = "awaiting_approval",
                        !.messages = Append(@, Msg("assistant", "requires_payment",
                                                   s1.payment_request, ""))]
        ELSE [s1 EXCEPT !.status = "completed",
                        !.messages = Append(@, Msg("assistant", "free", NonePayment, ""))]

negotiate_node_decides(state, response) ==
    IF state.payment_request = NonePayment
    THEN [state EXCEPT !.error = "No payment request to negotiate", !.status = "failed"]
    ELSE [state EXCEPT
            !.negotiation_history =
                Append(@, [original_amount |-> state.payment_request.amount,
                           agent_response |-> response]),
            !.messages = Append(@, Msg("assistant", "negotiation", NonePayment, response)),
            !.user_approved = (response = "acceptable"),
            !.status = IF response = "acceptable" THEN "executing"
                       ELSE "awaiting_approval"]

negotiate_node(state, response) ==
    IF state.payment_request = NonePayment
    THEN [state EXCEPT !.error = "No payment request to negotiate", !.status = "failed"]
    ELSE [state EXCEPT
            !.negotiation_history =
                Append(@, [original_amount |-> state.payment_request.amount,
                           agent_response |-> response]),
            !.messages = Append(@, Msg("assistant", "negotiation", NonePayment, response)),
            !.status = "awaiting_approval"]

execute_payment_node_nogate(state) ==
    IF state.payment_request = NonePayment
    THEN [state EXCEPT !.error = "No payment request to execute", !.status = "failed"]
    ELSE [state EXCEPT
            !.status = "executing",
            !.messages = Append(Append(@, Msg("assistant", "executing",
                                              state.payment_request, "")),
                                Msg("system", "EXECUTE_PAYMENT", state.payment_request, ""))]

execute_payment_node(state) ==
    IF ~state.user_approved
    THEN [state EXCEPT !.error = "User approval required before execution",
                       !.status = "awaiting_approval"]
    ELSE IF state.payment_request = NonePayment
    THEN [state EXCEPT !.error = "No payment request to execute", !.status = "failed"]
    ELSE [state EXCEPT
            !.status = "executing",
            !.messages = Append(Append(@, Msg("assistant", "executing",
                                              state.payment_request, "")),
                                Msg("system", "EXECUTE_PAYMENT", state.payment_request, ""))]

complete_node(state) ==
    LET s1 == IF state.status # "failed" THEN [state EXCEPT !.status = "completed"]
              ELSE state
    IN  IF Truthy(s1.tx_hash)
        THEN [s1 EXCEPT !.messages = Append(@, Msg("assistant", "completed_tx",
                                                   NonePayment, s1.tx_hash))]
        ELSE s1

should_negotiate(state) ==
    IF Truthy(state.error) THEN "complete"
    ELSE IF ~state.requires_payment THEN "complete"
    ELSE IF state.task_type = "negotiate" /\ Len(state.negotiation_history) = 0
    THEN "negotiate"
    ELSE "await_approval"

\* create_payment_agent: the run from the entry point; the advisory call of
\* negotiate_node returns `response`
RunFromEntry(state, result, response) ==
    LET s1 == check_url_node(state, result)
        route == should_negotiate(s1)
    IN  CASE route = "negotiate" -> negotiate_node(s1, response)
          [] route = "await_approval" -> s1
          [] route = "complete" -> complete_node(s1)

\* create_payment_agent: the run from "execute": execute -> complete -> END
RunFromExecute(state) == complete_node(execute_payment_node(state))

initial_state(sid, user, url, task) ==
    [session_id |-> sid, user_address |-> user, task_type |-> task, target_url |-> url,
     requires_payment |-> FALSE, payment_request |-> NonePayment, content |-> None,
     negotiation_history |-> <<>>, proposed_amount |-> None, counter_offer |-> None,
     user_approved |-> FALSE, tx_hash |-> None, status |-> "checking", error |-> None,
     messages |-> <<Msg("assistant", "starting", NonePayment, url)>>]

----------------------------------------------------------------------------------------------------------------------------------------
(* PaymentAgentRunner *)

Call(op, task, kind, tx) == [op |-> op, task |-> task, kind |-> kind, tx |-> tx]

Record(h, sid, call) == [h EXCEPT ![sid] = Append(@, call)]

\* calls on the session after its start are bounded by MaxCalls
MayCall(sid) == sid \in DOMAIN hist /\ Len(hist[sid]) <= MaxCalls

\* start_session; `response` is the advisory text, or "RAISE" when the call fails
start_session(sid, user, url, task, result, response) ==
    LET init == initial_state(sid, user, url, task)
        raises == /\ should_negotiate(check_url_node(init, result)) = "negotiate"
                  /\ response = "RAISE"
    IN  /\ sid \notin DOMAIN hist   \* main.py: every start draws a fresh uuid4
        /\ sessions' = IF raises THEN sessions
                       ELSE Put(sessions, sid, RunFromEntry(init, result, response))
        /\ hist' = IF raises THEN hist
                   ELSE Put(hist, sid, <<Call("start", task, result.kind, None)>>)
        /\ last' = [op |-> "start", sid |-> sid, raised |-> raises,
                    error |-> IF raises THEN "advisory" ELSE None]
        /\ UNCHANGED <<probeVars, schedVars, approving, batches, bhist>>

\* approve_payment up to its await
approve_payment_begin(sid) ==
    /\ sid \in DOMAIN sessions
    /\ sid \notin DOMAIN approving
    /\ MayCall(sid)
    /\ LET state == [sessions[sid] EXCEPT !.user_approved = TRUE, !.status = "executing"]
       IN  /\ sessions' = [sessions EXCEPT ![sid] = state]
           /\ approving' = Put(approving, sid, state)
    /\ hist' = Record(hist, sid, Call("approve_begin", None, None, None))
    /\ last' = [op |-> "approve", sid |-> sid, raised |-> FALSE, error |-> None]
    /\ UNCHANGED <<probeVars, schedVars, batches, bhist>>

\* approve_payment from its await on
approve_payment_finish(sid) ==
    /\ sid \in DOMAIN approving
    /\ sessions' = Put(sessions, sid, RunFromExecute(approving[sid]))
    /\ approving' = Drop(approving, sid)
    /\ hist' = Record(hist, sid, Call("approve_finish", None, None, None))
    /\ last' = [op |-> "approve", sid |-> sid, raised |-> FALSE, error |-> None]
    /\ UNCHANGED <<probeVars, schedVars, batches, bhist>>

approve_payment_not_found(sid) ==
    /\ sid \notin DOMAIN sessions
    /\ last' = [op |-> "approve", sid |-> sid, raised |-> TRUE,
                error |-> "not_found"]
    /\ UNCHANGED <<probeVars, schedVars, sessions, approving, hist, batches, bhist>>

confirm_transaction_keeps_status(sid, tx_hash) ==
    /\ sid \in DOMAIN sessions
    /\ MayCall(sid)
    /\ sessions' = [sessions EXCEPT
            ![sid].tx_hash = tx_hash,
            ![sid].messages = Append(@, Msg("assistant", "confirmed", NonePayment, tx_hash))]
    /\ hist' = Record(hist, sid, Call("confirm", None, None, tx_hash))
    /\ last' = [op |-> "confirm", sid |-> sid, raised |-> FALSE, error |-> None]
    /\ UNCHANGED <<probeVars, schedVars, approving, batches, bhist>>

confirm_transaction_first_wins(sid, tx_hash) ==
    /\ sid \in DOMAIN sessions
    /\ MayCall(sid)
    /\ sessions' = [sessions EXCEPT
            ![sid].tx_hash = IF Truthy(@) THEN @ ELSE tx_hash,
            ![sid].status = "completed",
            ![sid].messages = Append(@, Msg("assistant", "confirmed", NonePayment, tx_hash))]
    /\ hist' = Record(hist, sid, Call("confirm", None, None, tx_hash))
    /\ last' = [op |-> "confirm", sid |-> sid, raised |-> FALSE, error |-> None]
    /\ UNCHANGED <<probeVars, schedVars, approving, batches, bhist>>

confirm_transaction(sid, tx_hash) ==
    /\ sid \in DOMAIN sessions
    /\ MayCall(sid)
    /\ sessions' = [sessions EXCEPT
            ![sid].tx_hash = tx_hash,
            ![sid].status = "completed",
            ![sid].messages = Append(@, Msg("assistant", "confirmed", NonePayment, tx_hash))]
    /\ hist' = Record(hist, sid, Call("confirm", None, None, tx_hash))
    /\ last' = [op |-> "confirm", sid |-> sid, raised |-> FALSE, error |-> None]
    /\ UNCHANGED <<probeVars, schedVars, approving, batches, bhist>>

confirm_transaction_registers(sid, tx_hash) ==
    /\ sid \notin DOMAIN sessions
    /\ sessions' = Put(sessions, sid,
            [initial_state(sid, None, None, "check_url") EXCEPT !.tx_hash = tx_hash])
    /\ last' = [op |-> "confirm", sid |-> sid, raised |-> TRUE,
                error |-> "not_found"]
    /\ UNCHANGED <<probeVars, schedVars, approving, hist, batches, bhist>>

confirm_transaction_not_found(sid, tx_hash) ==
    /\ sid \notin DOMAIN sessions
    /\ last' = [op |-> "confirm", sid |-> sid, raised |-> TRUE,
                error |-> "not_found"]
    /\ UNCHANGED <<probeVars, schedVars, sessions, approving, hist, batches, bhist>>

cancel_session_clears(sid) ==
    /\ sid \in DOMAIN sessions
    /\ MayCall(sid)
    /\ sessions' = EmptyMap
    /\ hist' = Record(hist, sid, Call("cancel", None, None, None))
    /\ last' = [op |-> "cancel", sid |-> sid, raised |-> FALSE, error |-> None]
    /\ UNCHANGED <<probeVars, schedVars, approving, batches, bhist>>

\* main.py: DELETE /agent/session/{session_id}
cancel_session(sid) ==
    /\ sid \in DOMAIN sessions
    /\ MayCall(sid)
    /\ sessions' = Drop(sessions, sid)
    /\ hist' = Record(hist, sid, Call("cancel", None, None, None))
    /\ last' = [op |-> "cancel", sid |-> sid, raised |-> FALSE, error |-> None]
    /\ UNCHANGED <<probeVars, schedVars, approving, batches, bhist>>

----------------------------------------------------------------------------
(* Specification of the single-payment sessions *)

\* last.error: None, or which exception left the call: "not_found" for the
\* ValueError of an unknown session id, "advisory" for one raised by the
\* advisory model, "IndexError" for a list index out of range

NoCall == [op |-> "none", sid |-> None, raised |-> FALSE, error |-> None]

Init ==
    /\ sessions = EmptyMap
    /\ approving = EmptyMap
    /\ hist = EmptyMap
    /\ batches = EmptyMap
    /\ bhist = EmptyMap
    /\ last = NoCall
    /\ user_schedules = EmptyMap
    /\ clock = 0
    /\ fired = EmptyMap
    /\ cycling = EmptyMap
    /\ http_response = NoResponse
    /\ parsed = NotProbed

Next ==
    \/ \E sid \in SessionIds, user \in Users, url \in Urls, task \in TaskTypes :
         \E result \in check_x402_url(url), response \in AdvisoryTexts \cup {"RAISE"} :
            start_session(sid, user, url, task, result, response)
    \/ \E sid \in SessionIds : approve_payment_begin(sid)
    \/ \E sid \in SessionIds : approve_payment_finish(sid)
    \/ \E sid \in SessionIds : approve_payment_not_found(sid)
    \/ \E sid \in SessionIds, tx \in TxHashes : confirm_transaction(sid, tx)
    \/ \E sid \in SessionIds, tx \in TxHashes : confirm_transaction_not_found(sid, tx)
    \/ \E sid \in SessionIds : cancel_session(sid)

Spec == Init /\ [][Next]_vars

----------------------------------------------------------------------------
(* Batch sessions: multi_payment_agent.py *)

BatchIds == {"b1"}

\* the legs a caller may pass: {recipient, amount, token}
Legs ==
    { [recipient |-> "A", amount |-> 10, token |-> "USDC"],
      [recipient |-> "C", amount |-> 3, token |-> "ETH"] }

LegLists == UNION { [1..n -> Legs] : n \in 0..MaxLegs }

\* payment_index values a caller may pass
Indices == (0 - 1)..MaxLegs

BMsg(role, tag, index, payment, successful, failed) ==
    [role |-> role, tag |-> tag, index |-> index, payment |-> payment,
     successful |-> successful, failed |-> failed]

NoLeg == [recipient |-> None, amount |-> 0, token |-> None]

\* totals[token] = totals.get(token, 0) + amount, keys in insertion order
AddTotal_NoGrouping(totals, token, amount) ==
    Append(totals, [token |-> token, amount |-> amount])

AddTotal(totals, token, amount) ==
    IF \E i \in 1..Len(totals) : totals[i].token = token
    THEN [i \in 1..Len(totals) |->
            IF totals[i].token = token
            THEN [token |-> token, amount |-> totals[i].amount + amount]
            ELSE totals[i]]
    ELSE Append(totals, [token |-> token, amount |-> amount])

RECURSIVE TotalsOf(_, _)
TotalsOf(payments, totals) ==
    IF payments = <<>> THEN totals
    ELSE TotalsOf(Tail(payments),
                  AddTotal(totals, Head(payments).token, Head(payments).amount))

prepare_batch_node(state) ==
    IF state.payments = <<>>
    THEN [state EXCEPT !.error = "No payments provided", !.status = "failed"]
    ELSE LET total_str == TotalsOf(state.payments, <<>>)
         IN  [state EXCEPT
                !.total_amount = total_str,
                !.status = "awaiting_approval",
                !.requires_approval = TRUE,
                !.messages = Append(@, BMsg("assistant", "prepared", Len(state.payments),
                                            NoLeg, 0, 0))]

ExecuteLeg_IndexFromOne(state, i) ==
    LET payment == state.payments[i + 1]
    IN  [state EXCEPT
            !.current_index = i,
            !.messages = Append(@, BMsg("system", "EXECUTE_PAYMENT", i + 1, payment, 0, 0)),
            !.completed_payments =
                Append(@, [recipient |-> payment.recipient, amount |-> payment.amount,
                           token |-> payment.token, status |-> "pending_confirmation",
                           tx_hash |-> None])]

\* the body of the loop of execute_batch_node for index i (0-based)
ExecuteLeg(state, i) ==
    LET payment == state.payments[i + 1]
    IN  [state EXCEPT
            !.current_index = i,
            !.messages = Append(@, BMsg("system", "EXECUTE_PAYMENT", i, payment, 0, 0)),
            !.completed_payments =
                Append(@, [recipient |-> payment.recipient, amount |-> payment.amount,
                           token |-> payment.token, status |-> "pending_confirmation",
                           tx_hash |-> None])]

RECURSIVE ExecuteFrom(_, _)
ExecuteFrom(state, i) ==
    IF i >= Len(state.payments) THEN state
    ELSE ExecuteFrom(ExecuteLeg(state, i), i + 1)

execute_batch_node(state) ==
    [ExecuteFrom([state EXCEPT !.status = "processing"], 0)
        EXCEPT !.status = "awaiting_approval"]

IsTerminal(p) == p.status \in {"confirmed", "failed"}

CountConfirmed(state) ==
    Cardinality({i \in 1..Len(state.completed_payments) :
                    state.completed_payments[i].status = "confirmed"})

complete_batch_node(state) ==
    LET successful == CountConfirmed(state)
        failed == Len(state.failed_payments)
    IN  IF failed > 0
        THEN [state EXCEPT
                !.status = "completed",
                !.messages = Append(@, BMsg("assistant", "batch_complete", 0, NoLeg,
                                            successful, failed))]
        ELSE [state EXCEPT
                !.status = "completed",
                !.messages = Append(@, BMsg("assistant", "all_completed", 0, NoLeg,
                                            successful, 0))]

batch_initial_state(sid, user, payments) ==
    [session_id |-> sid, user_address |-> user, payments |-> payments,
     current_index |-> 0, completed_payments |-> <<>>, failed_payments |-> <<>>,
     status |-> "pending", requires_approval |-> FALSE, total_amount |-> <<>>,
     messages |-> <<BMsg("assistant", "preparing", 0, NoLeg, 0, 0)>>, error |-> None]

BCall(op, index, success) == [op |-> op, index |-> index, success |-> success]

MayCallBatch(sid) == sid \in DOMAIN bhist /\ Len(bhist[sid]) < MaxBatchOps

\* start_batch: the graph runs prepare -> END
start_batch(sid, user, payments) ==
    /\ sid \notin DOMAIN bhist   \* main.py: every start draws a fresh uuid4
    /\ batches' = Put(batches, sid, prepare_batch_node(batch_initial_state(sid, user, payments)))
    /\ bhist' = Put(bhist, sid, <<>>)
    /\ last' = [op |-> "start_batch", sid |-> sid, raised |-> FALSE, error |-> None]
    /\ UNCHANGED <<probeVars, schedVars, sessions, approving, hist>>

approve_and_execute(sid) ==
    /\ sid \in DOMAIN batches
    /\ MayCallBatch(sid)
    /\ batches' = [batches EXCEPT
            ![sid] = execute_batch_node([batches[sid] EXCEPT !.requires_approval = FALSE])]
    /\ bhist' = [bhist EXCEPT ![sid] = Append(@, BCall("approve", 0, FALSE))]
    /\ last' = [op |-> "approve_and_execute", sid |-> sid, raised |-> FALSE, error |-> None]
    /\ UNCHANGED <<probeVars, schedVars, sessions, approving, hist>>

approve_and_execute_not_found(sid) ==
    /\ sid \notin DOMAIN batches
    /\ last' = [op |-> "approve_and_execute", sid |-> sid, raised |-> TRUE,
                error |-> "not_found"]
    /\ UNCHANGED <<probeVars, schedVars, sessions, approving, hist, batches, bhist>>

\* completed_payments[payment_index] of Python: the position (1-based) a list
\* of length n is read at, 0 when the read raises IndexError
ListPos(payment_index, n) ==
    IF payment_index >= 0 THEN payment_index + 1
    ELSE IF 0 - payment_index <= n THEN n + payment_index + 1
    ELSE 0

ConfirmLegUpdate_NoFailedAppend(state, payment_index, tx_hash, success) ==
    IF payment_index < Len(state.completed_payments)
    THEN LET k == IF payment_index >= 0 THEN payment_index + 1
                  ELSE Len(state.completed_payments) + payment_index + 1
         IN  IF success
             THEN [state EXCEPT !.completed_payments[k].status = "confirmed",
                                !.completed_payments[k].tx_hash = tx_hash]
             ELSE [state EXCEPT !.completed_payments[k].status = "failed"]
    ELSE state

\* the leg update of confirm_payment; failed_payments holds the very records
\* of completed_payments, written here as their positions
ConfirmLegUpdate(state, payment_index, tx_hash, success) ==
    IF payment_index < Len(state.completed_payments)
    THEN LET k == ListPos(payment_index, Len(state.completed_payments))
         IN  IF success
             THEN [state EXCEPT !.completed_payments[k].status = "confirmed",
                                !.completed_payments[k].tx_hash = tx_hash]
             ELSE [state EXCEPT !.completed_payments[k].status = "failed",
                                !.failed_payments = Append(@, k)]
    ELSE state

any_confirmed(state) ==
    \E i \in 1..Len(state.completed_payments) : IsTerminal(state.completed_payments[i])

all_confirmed(state) ==
    \A i \in 1..Len(state.completed_payments) : IsTerminal(state.completed_payments[i])

ConfirmRaises(state, payment_index) ==
    /\ payment_index < Len(state.completed_payments)
    /\ ListPos(payment_index, Len(state.completed_payments)) = 0

confirm_payment(sid, payment_index, tx_hash, success) ==
    /\ sid \in DOMAIN batches
    /\ MayCallBatch(sid)
    /\ ~ConfirmRaises(batches[sid], payment_index)
    /\ LET state == ConfirmLegUpdate(batches[sid], payment_index, tx_hash, success)
       IN  batches' = [batches EXCEPT
                ![sid] = IF all_confirmed(state) THEN complete_batch_node(state) ELSE state]
    /\ bhist' = [bhist EXCEPT ![sid] = Append(@, BCall("confirm", payment_index, success))]
    /\ last' = [op |-> "confirm_payment", sid |-> sid, raised |-> FALSE, error |-> None]
    /\ UNCHANGED <<probeVars, schedVars, sessions, approving, hist>>

\* confirm_payment raising: IndexError on a negative index, or session not found
confirm_payment_raises(sid, payment_index) ==
    /\ \/ sid \notin DOMAIN batches
       \/ sid \in DOMAIN batches /\ ConfirmRaises(batches[sid], payment_index)
    /\ last' = [op |-> "confirm_payment", sid |-> sid, raised |-> TRUE,
                error |-> IF sid \in DOMAIN batches THEN "IndexError"
                          ELSE "not_found"]
    /\ UNCHANGED <<probeVars, schedVars, sessions, approving, hist, batches, bhist>>

NextBatch ==
    \/ \E sid \in BatchIds, user \in Users, payments \in LegLists :
            start_batch(sid, user, payments)
    \/ \E sid \in BatchIds : approve_and_execute(sid)
    \/ \E sid \in BatchIds : approve_and_execute_not_found(sid)
    \/ \E sid \in BatchIds, i \in Indices, tx \in {"0xabc"}, ok \in BOOLEAN :
            confirm_payment(sid, i, tx, ok)
    \/ \E sid \in BatchIds, i \in Indices : confirm_payment_raises(sid, i)

SpecBatch == Init /\ [][NextBatch]_vars

----------------------------------------------------------------------------
(* Claims on the single-payment sessions *)

Called(sid, op) == \E i \in 1..Len(hist[sid]) : hist[sid][i].op = op

\* the step appends a call `op` to the history of sid
StepIs(sid, op) ==
    /\ sid \in DOMAIN hist /\ sid \in DOMAIN hist'
    /\ Len(hist'[sid]) = Len(hist[sid]) + 1
    /\ hist'[sid][Len(hist'[sid])].op = op

AwaitingUnapproved(sid) ==
    /\ sid \in DOMAIN sessions
    /\ sessions[sid].status = "awaiting_approval"
    /\ ~sessions[sid].user_approved

\* C1: a session, registered or in a suspended approve_payment, whose status is
\* executing has the approval flag set, also after the execute step has run on
\* it; and the execute step applied to a session whose approval flag is false
\* records an error, gives status awaiting_approval and appends no message.
C1_ApprovalGate ==
    /\ \A sid \in DOMAIN sessions :
         sessions[sid].status = "executing" => sessions[sid].user_approved
    /\ \A sid \in DOMAIN approving :
         LET r == execute_payment_node(approving[sid])
         IN  /\ approving[sid].status = "executing" => approving[sid].user_approved
             /\ r.status = "executing" => r.user_approved
    /\ \A sid \in DOMAIN sessions :
         ~sessions[sid].user_approved =>
            LET r == execute_payment_node(sessions[sid])
            IN  /\ r.error = "User approval required before execution"
                /\ r.status = "awaiting_approval"
                /\ r.messages = sessions[sid].messages
                /\ ~r.user_approved

C1_Witness ==
    \E sid \in DOMAIN sessions :
        /\ sessions[sid].status = "executing"
        /\ sessions[sid].user_approved
        /\ sessions[sid].payment_request # NonePayment
        /\ sid \in DOMAIN approving

\* C2 (as claimed): a confirm on a session that is awaiting_approval with the
\* approval flag unset leaves its status at awaiting_approval.
C2_ConfirmLeavesAwaiting ==
    [][\A sid \in SessionIds :
         (AwaitingUnapproved(sid) /\ StepIs(sid, "confirm"))
            => sessions'[sid].status = "awaiting_approval"]_vars

\* C2 (amended): a confirm on a session that is awaiting_approval with the
\* approval flag unset sets its status to completed and stores the settlement
\* reference; the approval flag stays unset and the status is not executing.
C2_ConfirmBeforeApproval ==
    [][\A sid \in SessionIds :
         (AwaitingUnapproved(sid) /\ StepIs(sid, "confirm"))
            => /\ sessions'[sid].status = "completed"
               /\ sessions'[sid].status # "executing"
               /\ sessions'[sid].tx_hash = hist'[sid][Len(hist'[sid])].tx
               /\ ~sessions'[sid].user_approved]_vars

C2_Witness ==
    \E sid \in DOMAIN sessions :
        /\ Len(hist[sid]) = 2
        /\ hist[sid][1].kind = "demand"
        /\ hist[sid][2].op = "confirm"
        /\ sessions[sid].status = "completed"
        /\ ~sessions[sid].user_approved

\* C3: a session that required payment and whose status is completed has had
\* a confirm call.
C3_CompletedNeedsConfirm ==
    \A sid \in DOMAIN sessions :
        (sessions[sid].status = "completed" /\ sessions[sid].requires_payment)
            => Called(sid, "confirm")

\* C4: a completed session with a non-empty settlement reference required
\* payment.
C4_TxImpliesRequiresPayment ==
    \A sid \in DOMAIN sessions :
        (sessions[sid].status = "completed" /\ Truthy(sessions[sid].tx_hash))
            => sessions[sid].requires_payment

\* C5: the snapshot start returns has status failed with the error recorded
\* after a network, parse or HTTP error, completed after a response needing no
\* payment, awaiting_approval with the approval flag false and no execution
\* intent after a demand with a task kind other than negotiate, and no status
\* besides these three.
C5_StartStatus ==
    \A sid \in DOMAIN sessions :
        Len(hist[sid]) = 1 =>
            LET s == sessions[sid]
                kind == hist[sid][1].kind
            IN  /\ kind \in {"network_error", "parse_error", "http_status"}
                      => s.status = "failed" /\ Truthy(s.error)
                /\ kind = "free" => s.status = "completed"
                /\ (kind = "demand" /\ s.task_type # "negotiate")
                      => /\ s.status = "awaiting_approval"
                         /\ ~s.user_approved
                         /\ ~HasIntent(s.messages)
                /\ s.status \in {"failed", "completed", "awaiting_approval"}

----------------------------------------------------------------------------
(* Claims on the batch sessions *)

\* the step appends a call `op` to the history of the batch sid
BatchStepIs(sid, op) ==
    /\ sid \in DOMAIN bhist /\ sid \in DOMAIN bhist'
    /\ Len(bhist'[sid]) = Len(bhist[sid]) + 1
    /\ bhist'[sid][Len(bhist'[sid])].op = op

\* C6: no leg is recorded both in completed_payments and in failed_payments,
\* none twice in failed_payments, and none twice in completed_payments.
C6_LegPartition ==
    \A sid \in DOMAIN batches :
        LET b == batches[sid]
        IN  /\ \A j \in 1..Len(b.failed_payments) :
                  b.failed_payments[j] \notin 1..Len(b.completed_payments)
            /\ \A i, j \in 1..Len(b.failed_payments) :
                  i # j => b.failed_payments[i] # b.failed_payments[j]
            /\ Len(b.completed_payments) <= Len(b.payments)

\* C7: when the aggregate status is completed, every record of
\* completed_payments is confirmed or failed, none pending_confirmation.
C7_CompletedAllTerminal ==
    \A sid \in DOMAIN batches :
        batches[sid].status = "completed" =>
            \A i \in 1..Len(batches[sid].completed_payments) :
                /\ batches[sid].completed_payments[i].status \in {"confirmed", "failed"}
                /\ batches[sid].completed_payments[i].status # "pending_confirmation"

C7_Witness ==
    \E sid \in DOMAIN batches :
        /\ batches[sid].status = "completed"
        /\ \E i, j \in 1..Len(batches[sid].completed_payments) :
              /\ batches[sid].completed_payments[i].status = "confirmed"
              /\ batches[sid].completed_payments[j].status = "failed"

\* the batch sid was executed once and then only confirmed, each index within
\* 0..N-1 at most once
ExecutedOnceThenConfirms(sid) ==
    LET h == bhist[sid]
        N == Len(batches[sid].payments)
    IN  /\ N >= 1
        /\ Len(h) >= 1
        /\ h[1].op = "approve"
        /\ \A i \in 2..Len(h) : h[i].op = "confirm" /\ h[i].index \in 0..(N - 1)
        /\ \A i, j \in 2..Len(h) : i # j => h[i].index # h[j].index

ConfirmsWith(sid, success) ==
    Cardinality({i \in 2..Len(bhist[sid]) : bhist[sid][i].success = success})

\* C8: for a batch of N >= 1 legs executed once, the aggregate status is
\* awaiting_approval while an index 0..N-1 is unconfirmed; once each index was
\* confirmed exactly once the status is completed, the confirmed legs number
\* the success=true confirmations and failed_payments the success=false ones.
C8_ConfirmAllCompletes ==
    \A sid \in DOMAIN batches :
        ExecutedOnceThenConfirms(sid) =>
            LET b == batches[sid]
                N == Len(b.payments)
            IN  IF Len(bhist[sid]) - 1 < N
                THEN b.status = "awaiting_approval"
                ELSE /\ b.status = "completed"
                     /\ CountConfirmed(b) = ConfirmsWith(sid, TRUE)
                     /\ Len(b.failed_payments) = ConfirmsWith(sid, FALSE)

C8_Witness ==
    \E sid \in DOMAIN batches :
        /\ ExecutedOnceThenConfirms(sid)
        /\ Len(batches[sid].payments) >= 2
        /\ Len(bhist[sid]) - 1 = Len(batches[sid].payments)
        /\ ConfirmsWith(sid, TRUE) = 0
        /\ batches[sid].status = "completed"
        /\ Len(batches[sid].failed_payments) = Len(batches[sid].payments)
        /\ CountConfirmed(batches[sid]) = 0

\* C9: a confirm_payment whose index is below 0 or at least the number of
\* records in completed_payments leaves the batch session unchanged.
C9_OutOfRangeNoOp ==
    [][\A sid \in BatchIds :
         (/\ sid \in DOMAIN batches
          /\ BatchStepIs(sid, "confirm")
          /\ LET i == bhist'[sid][Len(bhist'[sid])].index
             IN  i < 0 \/ i >= Len(batches[sid].completed_payments))
            => /\ batches'[sid].status = batches[sid].status
               /\ batches'[sid].completed_payments = batches[sid].completed_payments
               /\ batches'[sid].failed_payments = batches[sid].failed_payments
               /\ batches'[sid].messages = batches[sid].messages]_vars

BatchIntents(b) ==
    {i \in 1..Len(b.messages) : b.messages[i].tag = "EXECUTE_PAYMENT"}

\* C10: a batch started with an empty leg list is failed, with an error and no
\* execution intent; the status steps only awaiting_approval -> awaiting_approval
\* or awaiting_approval -> completed, and a status completed or failed is
\* changed by no later approve_and_execute or confirm_payment.
C10_StatusPath ==
    [][\A sid \in BatchIds :
         /\ (sid \notin DOMAIN batches /\ sid \in DOMAIN batches'
                /\ batches'[sid].payments = <<>>)
               => /\ batches'[sid].status = "failed"
                  /\ Truthy(batches'[sid].error)
                  /\ BatchIntents(batches'[sid]) = {}
         /\ (sid \in DOMAIN batches /\ sid \in DOMAIN batches'
                /\ batches[sid].status \in {"completed", "failed"})
               => batches'[sid].status = batches[sid].status]_vars

----------------------------------------------------------------------------
(* Batch totals: prepare_batch_node on leg lists, two batches side by side *)

TotalBatchIds == {"b1", "b2"}

TotalLegs == Legs \cup { [recipient |-> "B", amount |-> 5, token |-> "USDC"] }

TotalLegLists == UNION { [1..n -> TotalLegs] : n \in 0..MaxTotalLegs }

NextTotals ==
    \E sid \in TotalBatchIds, user \in Users, payments \in TotalLegLists :
        start_batch(sid, user, payments)

SpecTotals == Init /\ [][NextTotals]_vars

CountLeg(payments, leg) == Cardinality({i \in 1..Len(payments) : payments[i] = leg})

\* p and q hold the same multiset of legs
SameLegs(p, q) == \A leg \in TotalLegs : CountLeg(p, leg) = CountLeg(q, leg)

RECURSIVE SumOf(_, _)
SumOf(payments, token) ==
    IF payments = <<>> THEN 0
    ELSE (IF Head(payments).token = token THEN Head(payments).amount ELSE 0)
         + SumOf(Tail(payments), token)

Terms(total) == {total[i] : i \in 1..Len(total)}

\* the position of the first leg of `token` in payments
FirstLeg(payments, token) ==
    CHOOSE i \in 1..Len(payments) :
        /\ payments[i].token = token
        /\ \A j \in 1..(i - 1) : payments[j].token # token

\* C11 (as claimed): two prepared batches whose leg lists are permutations of
\* each other have the same rendered total, term for term in the same order.
C11_TotalOrderIndependent ==
    \A a, b \in DOMAIN batches :
        (batches[a].status = "awaiting_approval" /\ batches[b].status = "awaiting_approval"
            /\ SameLegs(batches[a].payments, batches[b].payments))
            => batches[a].total_amount = batches[b].total_amount

\* C11 (amended): the total of a prepared batch has one term per distinct
\* token, each the sum of that token's leg amounts, in the order in which the
\* tokens first appear in the leg list; two batches whose leg lists are
\* permutations of each other have the same terms, possibly in another order.
C11_TotalGroupsByToken ==
    /\ \A a \in DOMAIN batches :
         batches[a].status = "awaiting_approval" =>
            LET total == batches[a].total_amount
                pays == batches[a].payments
            IN  /\ \A i, j \in 1..Len(total) : i # j => total[i].token # total[j].token
                /\ {total[i].token : i \in 1..Len(total)}
                      = {pays[i].token : i \in 1..Len(pays)}
                /\ \A i \in 1..Len(total) : total[i].amount = SumOf(pays, total[i].token)
                /\ \A i, j \in 1..Len(total) :
                      i < j => FirstLeg(pays, total[i].token) < FirstLeg(pays, total[j].token)
    /\ \A a, b \in DOMAIN batches :
         (batches[a].status = "awaiting_approval" /\ batches[b].status = "awaiting_approval"
             /\ SameLegs(batches[a].payments, batches[b].payments))
             => Terms(batches[a].total_amount) = Terms(batches[b].total_amount)

\* legs {A,10,USDC},{B,5,USDC},{C,3,ETH} in two different orders
C11_Witness ==
    /\ DOMAIN batches = TotalBatchIds
    /\ Len(batches["b1"].payments) = 3
    /\ \A leg \in TotalLegs : CountLeg(batches["b1"].payments, leg) = 1
    /\ SameLegs(batches["b1"].payments, batches["b2"].payments)
    /\ batches["b1"].payments # batches["b2"].payments
    /\ batches["b1"].total_amount =
          <<[token |-> "USDC", amount |-> 15], [token |-> "ETH", amount |-> 3]>>
    /\ Terms(batches["b2"].total_amount) = Terms(batches["b1"].total_amount)

----------------------------------------------------------------------------
(* Scheduler: SchedulerRunner and its graph, multi_payment_agent.py         *)
(*                                                                          *)
(* Time is counted in units of 1800 s.  A timestamp is a natural number;    *)
(* NoneTime stands for Python's None in a field holding a time or an        *)
(* interval, BadTime for a non-empty string datetime.fromisoformat rejects. *)
(* isoformat followed by fromisoformat returns the datetime it was given,   *)
(* so last_executed is kept as the time itself.  created_at is never read   *)
(* and is left out of the entries.                                          *)

NoneTime == 0 - 1
BadTime == 0 - 2

Payers == {"alice"}
AnyPayers == {"alice", "bob"}
EntryIds == {"p1", "p2"}
RecipientOf == [id \in EntryIds |-> IF id = "p1" THEN "0xA" ELSE "0xB"]
AmountOf == [id \in EntryIds |-> IF id = "p1" THEN "10" ELSE "3"]
TokenOf == [id \in EntryIds |-> IF id = "p1" THEN "USDC" ELSE "ETH"]
ExecuteAts == {NoneTime, BadTime, 2}
Intervals == {NoneTime, 2}

\* the (schedule_type, execute_at, recurring_interval_seconds) of a request
ScheduleKinds ==
    {<<"immediate", NoneTime, NoneTime>>, <<"conditional", NoneTime, NoneTime>>}
    \cup {<<"scheduled", at, NoneTime>> : at \in ExecuteAts}
    \cup {<<"recurring", at, iv>> : at \in ExecuteAts, iv \in Intervals}

SMsg(role, tag, payment_id, recipient, amount, token) ==
    [role |-> role, tag |-> tag, payment_id |-> payment_id,
     recipient |-> recipient, amount |-> amount, token |-> token]

Eligibility_IgnoresStatus(payment, now) ==
    IF payment.schedule_type = "immediate" THEN "yes"
    ELSE IF payment.schedule_type = "scheduled" THEN
        IF payment.execute_at \in {NoneTime, BadTime} THEN "raise"
        ELSE IF now >= payment.execute_at THEN "yes" ELSE "no"
    ELSE "no"

Eligibility_StrictInterval(payment, now) ==
    IF payment.status # "pending" THEN "no"
    ELSE IF payment.schedule_type = "immediate" THEN "yes"
    ELSE IF payment.schedule_type = "recurring" THEN
        IF payment.last_executed # NoneTime THEN
            IF payment.recurring_interval_seconds = NoneTime THEN "raise"
            ELSE IF now - payment.last_executed > payment.recurring_interval_seconds
                 THEN "yes" ELSE "no"
        ELSE IF payment.execute_at = NoneTime THEN "yes"
        ELSE IF payment.execute_at = BadTime THEN "raise"
        ELSE IF now >= payment.execute_at THEN "yes" ELSE "no"
    ELSE "no"

\* one iteration of the loop of check_schedule_node: "yes" appends the id,
\* "no" does not, "raise" is an exception leaving the node
Eligibility(payment, now) ==
    IF payment.status # "pending" THEN "no"
    ELSE IF payment.schedule_type = "immediate" THEN "yes"
    ELSE IF payment.schedule_type = "scheduled" THEN
        IF payment.execute_at \in {NoneTime, BadTime} THEN "raise"
        ELSE IF now >= payment.execute_at THEN "yes" ELSE "no"
    ELSE IF payment.schedule_type = "recurring" THEN
        IF payment.last_executed # NoneTime THEN
            IF payment.recurring_interval_seconds = NoneTime THEN "raise"
            ELSE IF now - payment.last_executed >= payment.recurring_interval_seconds
                 THEN "yes" ELSE "no"
        ELSE IF payment.execute_at = NoneTime THEN "yes"
        ELSE IF payment.execute_at = BadTime THEN "raise"
        ELSE IF now >= payment.execute_at THEN "yes" ELSE "no"
    ELSE "no"

CheckRaises(payments, now) ==
    \E i \in 1..Len(payments) : Eligibility(payments[i], now) = "raise"

check_schedule_node(state, now) ==
    LET due == SelectSeq(state.scheduled_payments,
                         LAMBDA p : Eligibility(p, now) = "yes")
        pending == [i \in 1..Len(due) |-> due[i].id]
    IN [state EXCEPT
          !.status = "checking",
          !.pending_executions = pending,
          !.messages = Append(@, IF pending # <<>>
              THEN SMsg("assistant", "found", None, None, None, None)
              ELSE SMsg("assistant", "none_due", None, None, None, None))]

\* next((p for p in payments if p['id'] == payment_id), None): 0 for None
FirstWithId(payments, payment_id) ==
    IF \E i \in 1..Len(payments) : payments[i].id = payment_id
    THEN CHOOSE i \in 1..Len(payments) :
            /\ payments[i].id = payment_id
            /\ \A j \in 1..(i - 1) : payments[j].id # payment_id
    ELSE 0

ExecutePayment_CountsOnce(state, payment_id, at) ==
    LET i == FirstWithId(state.scheduled_payments, payment_id)
        payment == state.scheduled_payments[i]
    IN IF i = 0 THEN state
       ELSE [state EXCEPT
          !.messages = Append(@, SMsg("system", "EXECUTE_SCHEDULED_PAYMENT",
                    payment_id, payment.recipient, payment.amount, payment.token)),
          !.scheduled_payments[i] = [payment EXCEPT
                !.last_executed = at,
                !.execution_count = 1,
                !.status = IF payment.schedule_type # "recurring"
                           THEN "executed" ELSE @]]

ExecutePayment_KeepsPending(state, payment_id, at) ==
    LET i == FirstWithId(state.scheduled_payments, payment_id)
        payment == state.scheduled_payments[i]
    IN IF i = 0 THEN state
       ELSE [state EXCEPT
          !.messages = Append(@, SMsg("system", "EXECUTE_SCHEDULED_PAYMENT",
                    payment_id, payment.recipient, payment.amount, payment.token)),
          !.scheduled_payments[i] = [payment EXCEPT
                !.last_executed = at,
                !.execution_count = @ + 1]]

\* the body of the loop of execute_scheduled_node, for one pending id
ExecutePayment(state, payment_id, at) ==
    LET i == FirstWithId(state.scheduled_payments, payment_id)
        payment == state.scheduled_payments[i]
    IN IF i = 0 THEN state
       ELSE [state EXCEPT
          !.messages = Append(@, SMsg("system", "EXECUTE_SCHEDULED_PAYMENT",
                    payment_id, payment.recipient, payment.amount, payment.token)),
          !.scheduled_payments[i] = [payment EXCEPT
                !.last_executed = at,
                !.execution_count = @ + 1,
                !.status = IF payment.schedule_type # "recurring"
                           THEN "executed" ELSE @]]

ExecuteAll_FirstOnly(state, ids, at) ==
    IF ids = <<>> THEN state ELSE ExecutePayment(state, Head(ids), at)

RECURSIVE ExecuteAll(_, _, _)
ExecuteAll(state, ids, at) ==
    IF ids = <<>> THEN state
    ELSE ExecuteAll(ExecutePayment(state, Head(ids), at), Tail(ids), at)

\* at: the datetime.now() read while executing, not before the one of the check
execute_scheduled_node(state, at) ==
    [ExecuteAll([state EXCEPT !.status = "executing"],
                state.pending_executions, at)
       EXCEPT !.status = "completed"]

should_execute(state) ==
    IF state.pending_executions # <<>> THEN "execute" ELSE "done"

\* create_scheduler_agent: check -> (execute | END), execute -> END
RunScheduler(state, now, at) ==
    LET checked == check_schedule_node(state, now)
    IN IF should_execute(checked) = "execute"
       THEN execute_scheduled_node(checked, at) ELSE checked

scheduler_initial_state(user_address, payments) ==
    [user_address |-> user_address, scheduled_payments |-> payments,
     pending_executions |-> <<>>, status |-> "idle", messages |-> <<>>,
     error |-> None]

get_user_schedule(user_address) ==
    IF user_address \in DOMAIN user_schedules
    THEN user_schedules[user_address] ELSE <<>>

StoredIds ==
    UNION {{user_schedules[u][i].id : i \in 1..Len(user_schedules[u])} :
              u \in DOMAIN user_schedules}

\* the result of a call that returns no scheduler state
NoResult == scheduler_initial_state(None, <<>>)

SCall(op, user, id, raised, returned, result) ==
    [op |-> op, sid |-> user, raised |-> raised, id |-> id,
     returned |-> returned, result |-> result]

\* SchedulerRunner.add_scheduled_payment; main.py draws payment_id with uuid4
add_scheduled_payment(user_address, payment_id, recipient, amount, token, schedule_type, execute_at, recurring_interval_seconds) ==
    LET payment == [id |-> payment_id, recipient |-> recipient,
                    amount |-> amount, token |-> token,
                    schedule_type |-> schedule_type, execute_at |-> execute_at,
                    recurring_interval_seconds |-> recurring_interval_seconds,
                    status |-> "pending", last_executed |-> NoneTime,
                    execution_count |-> 0]
    IN /\ payment_id \notin StoredIds
       /\ user_schedules' = Put(user_schedules, user_address,
                                Append(get_user_schedule(user_address), payment))
       /\ last' = SCall("add_scheduled_payment", user_address, payment_id,
                        FALSE, FALSE, NoResult)
       /\ UNCHANGED <<probeVars, agentVars, clock, fired, cycling>>

RECURSIVE RecordFired(_, _, _)
RecordFired(f, ids, at) ==
    IF ids = <<>> THEN f
    ELSE RecordFired(
            Put(f, Head(ids),
                Append(IF Head(ids) \in DOMAIN f THEN f[Head(ids)] ELSE <<>>, at)),
            Tail(ids), at)

\* SchedulerRunner.check_and_execute, run to its end without another call in
\* between; delay: how much later than the check the execution reads the time
check_and_execute(user_address, delay) ==
    LET payments == get_user_schedule(user_address)
        state == scheduler_initial_state(user_address, payments)
        raises == CheckRaises(payments, clock)
        checked == check_schedule_node(state, clock)
        executes == should_execute(checked) = "execute"
        result == RunScheduler(state, clock, clock + delay)
    IN /\ clock + delay <= MaxClock
       /\ IF raises
          THEN /\ delay = 0
               /\ last' = SCall("check_and_execute", user_address, None,
                                TRUE, FALSE, NoResult)
               /\ UNCHANGED <<probeVars, agentVars, schedVars>>
          ELSE /\ executes \/ delay = 0
               /\ user_schedules' =
                     Put(user_schedules, user_address, result.scheduled_payments)
               /\ clock' = clock + delay
               /\ fired' = IF executes
                           THEN RecordFired(fired, checked.pending_executions,
                                            clock + delay)
                           ELSE fired
               /\ last' = SCall("check_and_execute", user_address, None,
                                FALSE, FALSE, result)
               /\ UNCHANGED <<probeVars, agentVars, cycling>>

\* SchedulerRunner.cancel_payment
cancel_payment(user_address, payment_id) ==
    LET payments == get_user_schedule(user_address)
        hits == {i \in 1..Len(payments) :
                    /\ payments[i].id = payment_id
                    /\ payments[i].status = "pending"}
        i == CHOOSE k \in hits : \A j \in hits : k <= j
    IN /\ IF hits # {}
          THEN user_schedules' = [user_schedules EXCEPT
                    ![user_address][i].status = "cancelled"]
          ELSE UNCHANGED user_schedules
       /\ last' = SCall("cancel_payment", user_address, payment_id,
                        FALSE, hits # {}, NoResult)
       /\ UNCHANGED <<probeVars, agentVars, clock, fired, cycling>>

\* time passes
Tick ==
    /\ clock < MaxClock
    /\ clock' = clock + 1
    /\ last' = SCall("tick", None, None, FALSE, FALSE, NoResult)
    /\ UNCHANGED <<probeVars, agentVars, user_schedules, fired, cycling>>

NextSched ==
    \/ \E user \in Payers, id \in EntryIds, kind \in ScheduleKinds :
            add_scheduled_payment(user, id, RecipientOf[id], AmountOf[id],
                                  TokenOf[id], kind[1], kind[2], kind[3])
    \/ \E user \in AnyPayers, delay \in {0, 1} : check_and_execute(user, delay)
    \/ \E user \in AnyPayers, id \in EntryIds : cancel_payment(user, id)
    \/ Tick

SpecSched == Init /\ [][NextSched]_vars
----------------------------------------------------------------------------
(* Scheduler with other calls arriving inside a cycle                       *)
(*                                                                          *)
(* check_and_execute awaits app.ainvoke, and the graph suspends between its *)
(* nodes: add_scheduled_payment and cancel_payment can run between the      *)
(* eligibility pass and the execution pass.  The graph may hand the nodes   *)
(* the caller's list and entry objects or copies of them; `shared` is that  *)
(* choice.  With the caller's objects the execution pass sees and changes   *)
(* the entries as they are in user_schedules at that time, with copies it   *)
(* works on the entries as they were when the cycle began.  A payer without *)
(* a list gets a fresh empty list that is not in user_schedules.  At most   *)
(* one cycle per payer is under way.                                        *)

ConcurrentKinds ==
    {<<"immediate", NoneTime, NoneTime>>, <<"scheduled", 2, NoneTime>>,
     <<"recurring", NoneTime, 2>>}

Cycle(state, shared, had_list) ==
    [state |-> state, shared |-> shared, had_list |-> had_list]

\* check_and_execute up to the end of the eligibility pass
check_and_execute_begin(user_address, shared) ==
    LET payments == get_user_schedule(user_address)
        state == scheduler_initial_state(user_address, payments)
    IN /\ user_address \notin DOMAIN cycling
       /\ ~CheckRaises(payments, clock)
       /\ cycling' = Put(cycling, user_address,
                         Cycle(check_schedule_node(state, clock), shared,
                               user_address \in DOMAIN user_schedules))
       /\ last' = SCall("check_and_execute_begin", user_address, None,
                        FALSE, FALSE, NoResult)
       /\ UNCHANGED <<probeVars, agentVars, user_schedules, clock, fired>>

\* the entries the execution pass works on
EntriesAtExecution(user_address) ==
    IF cycling[user_address].shared /\ cycling[user_address].had_list
    THEN user_schedules[user_address]
    ELSE cycling[user_address].state.scheduled_payments

\* check_and_execute from the execution pass on: the rest of the graph run
\* and the write to user_schedules
check_and_execute_finish(user_address) ==
    LET c == cycling[user_address]
        state == [c.state EXCEPT !.scheduled_payments = EntriesAtExecution(user_address)]
        executes == should_execute(state) = "execute"
        result == IF executes THEN execute_scheduled_node(state, clock) ELSE state
    IN /\ user_address \in DOMAIN cycling
       /\ user_schedules' =
             Put(user_schedules, user_address, result.scheduled_payments)
       /\ fired' = IF executes
                   THEN RecordFired(fired, state.pending_executions, clock)
                   ELSE fired
       /\ cycling' = Drop(cycling, user_address)
       /\ last' = SCall("check_and_execute", user_address, None,
                        FALSE, FALSE, result)
       /\ UNCHANGED <<probeVars, agentVars, clock>>

NextSchedConcurrent ==
    \/ \E user \in Payers, id \in EntryIds, kind \in ConcurrentKinds :
            add_scheduled_payment(user, id, RecipientOf[id], AmountOf[id],
                                  TokenOf[id], kind[1], kind[2], kind[3])
    \/ \E user \in Payers, shared \in BOOLEAN :
            check_and_execute_begin(user, shared)
    \/ \E user \in Payers : check_and_execute_finish(user)
    \/ \E user \in Payers, id \in EntryIds : cancel_payment(user, id)
    \/ Tick

SpecSchedConcurrent == Init /\ [][NextSchedConcurrent]_vars

----------------------------------------------------------------------------
(* Claims on the scheduler *)

\* the step is a cycle of this payer that returned
CycleStep(user) ==
    /\ last'.op = "check_and_execute"
    /\ last'.sid = user
    /\ ~last'.raised

\* the execution intents for an entry among some messages
IntentsFor(msgs, id) ==
    {k \in 1..Len(msgs) : /\ msgs[k].tag = "EXECUTE_SCHEDULED_PAYMENT"
                          /\ msgs[k].payment_id = id}

FiredIn(user, id) ==
    /\ CycleStep(user)
    /\ IntentsFor(last'.result.messages, id) # {}

FiredTimes(id) == IF id \in DOMAIN fired THEN fired[id] ELSE <<>>

\* C12: a scheduled entry is fired by a cycle only when now >= execute_at; the
\* cycle that fires it sets its status to executed and its execution count to
\* 1, and from then on no step of any operation changes the entry or emits an
\* intent for it, so it is fired at most once
C12_ScheduledFiresOnce ==
    [][\A u \in DOMAIN user_schedules : \A i \in 1..Len(user_schedules[u]) :
         LET e == user_schedules[u][i]
             e2 == user_schedules'[u][i]
         IN e.schedule_type = "scheduled" =>
              /\ FiredIn(u, e.id) =>
                    /\ e.status = "pending"
                    /\ e.execute_at >= 0
                    /\ clock >= e.execute_at
                    /\ e2.status = "executed"
                    /\ e2.execution_count = 1
              /\ e.status = "executed" => (e2 = e /\ ~FiredIn(u, e.id))
              /\ e2.execution_count <= 1
              /\ Len(FiredTimes(e.id)') = e2.execution_count
      ]_vars

\* a scheduled entry fired earlier, and a later cycle of its payer that
\* returned without an intent for it
C12_Witness ==
    \E u \in DOMAIN user_schedules : \E i \in 1..Len(user_schedules[u]) :
        LET e == user_schedules[u][i]
        IN /\ e.schedule_type = "scheduled"
           /\ e.status = "executed"
           /\ e.execution_count = 1
           /\ e.last_executed < clock
           /\ last.op = "check_and_execute"
           /\ last.sid = u
           /\ ~last.raised
           /\ IntentsFor(last.result.messages, e.id) = {}

\* the entries of a payer with a given id and status
EntriesWith(user, id, statuses) ==
    {i \in 1..Len(get_user_schedule(user)) :
        /\ get_user_schedule(user)[i].id = id
        /\ get_user_schedule(user)[i].status \in statuses}

\* C13: cancel on a pending entry returns true and sets its status to
\* cancelled, changing nothing else; cancel on an executed or cancelled entry,
\* or on an unknown id or payer, returns false and changes nothing; and once an
\* entry is cancelled no step changes it and no cycle emits an intent for it
C13_CancelSemantics ==
    [][/\ last'.op = "cancel_payment" =>
            LET u == last'.sid
                hits == EntriesWith(u, last'.id, {"pending"})
            IN IF hits # {}
               THEN /\ last'.returned
                    /\ \E i \in hits :
                          user_schedules' = [user_schedules EXCEPT
                                ![u][i].status = "cancelled"]
               ELSE /\ ~last'.returned
                    /\ user_schedules' = user_schedules
       /\ \A u \in DOMAIN user_schedules : \A i \in 1..Len(user_schedules[u]) :
            user_schedules[u][i].status = "cancelled" =>
                /\ user_schedules'[u][i] = user_schedules[u][i]
                /\ ~FiredIn(u, user_schedules[u][i].id)
                /\ FiredTimes(user_schedules[u][i].id)'
                      = FiredTimes(user_schedules[u][i].id)
      ]_vars

\* an immediate entry cancelled before any cycle, and a cycle of its payer that
\* returned afterwards without an intent for it
C13_Witness ==
    \E u \in DOMAIN user_schedules : \E i \in 1..Len(user_schedules[u]) :
        LET e == user_schedules[u][i]
        IN /\ e.schedule_type = "immediate"
           /\ e.status = "cancelled"
           /\ e.execution_count = 0
           /\ last.op = "check_and_execute"
           /\ last.sid = u
           /\ ~last.raised
           /\ IntentsFor(last.result.messages, e.id) = {}

\* C14: in a cycle that returns, a pending recurring entry with an interval
\* that was executed before is fired exactly when
\* now - last_executed >= recurring_interval_seconds (boundary included), and
\* the successive firings of a recurring entry with an interval are at least
\* one interval apart
C14_RecurringInterval ==
    [][\A u \in DOMAIN user_schedules : \A i \in 1..Len(user_schedules[u]) :
         LET e == user_schedules[u][i]
             times == FiredTimes(e.id)'
         IN (/\ e.schedule_type = "recurring"
             /\ e.recurring_interval_seconds # NoneTime) =>
              /\ (/\ CycleStep(u)
                  /\ e.status = "pending"
                  /\ e.last_executed # NoneTime) =>
                    (FiredIn(u, e.id) <=>
                        clock - e.last_executed >= e.recurring_interval_seconds)
              /\ \A k \in 1..(Len(times) - 1) :
                    times[k + 1] - times[k] >= e.recurring_interval_seconds
      ]_vars

\* a recurring entry fired a second time exactly one interval after the first
C14_Witness ==
    \E u \in DOMAIN user_schedules : \E i \in 1..Len(user_schedules[u]) :
        LET e == user_schedules[u][i]
        IN /\ e.schedule_type = "recurring"
           /\ e.recurring_interval_seconds # NoneTime
           /\ Len(FiredTimes(e.id)) = 2
           /\ FiredTimes(e.id)[2] - FiredTimes(e.id)[1]
                 = e.recurring_interval_seconds
           /\ e.execution_count = 2

\* C15: no scheduler cycle raises, whatever entries add has stored
C15_CycleNeverRaises ==
    last.op = "check_and_execute" => ~last.raised

InSeq(s, x) == \E k \in 1..Len(s) : s[k] = x

\* C20: a cycle that returns emits, for each entry whose id it found eligible,
\* exactly one EXECUTE_SCHEDULED_PAYMENT intent with that entry's recipient,
\* amount and token, sets its last_executed to the time read while executing
\* and adds exactly 1 to its execution count; a non-recurring entry then has
\* status executed and a recurring one stays pending; every other entry of
\* the payer is left as it was and gets no intent
C20_CycleFiresEachOnce ==
    [][\A u \in AnyPayers : CycleStep(u) =>
         LET before == get_user_schedule(u)
             after == user_schedules'[u]
             res == last'.result
         IN /\ Len(after) = Len(before)
            /\ \A i \in 1..Len(before) :
                 LET e == before[i]
                     hits == IntentsFor(res.messages, e.id)
                 IN IF InSeq(res.pending_executions, e.id)
                    THEN /\ Cardinality(hits) = 1
                         /\ \A k \in hits :
                               /\ res.messages[k].recipient = e.recipient
                               /\ res.messages[k].amount = e.amount
                               /\ res.messages[k].token = e.token
                         /\ after[i] = [e EXCEPT
                               !.last_executed = clock',
                               !.execution_count = e.execution_count + 1,
                               !.status = IF e.schedule_type = "recurring"
                                          THEN "pending" ELSE "executed"]
                         /\ clock' >= clock
                    ELSE /\ hits = {}
                         /\ after[i] = e
      ]_vars

\* a cycle that has just fired two entries, one recurring and one not
C20_Witness ==
    /\ last.op = "check_and_execute"
    /\ ~last.raised
    /\ Len(last.result.pending_executions) = 2
    /\ \E i, j \in 1..Len(get_user_schedule(last.sid)) :
          LET a == get_user_schedule(last.sid)[i]
              b == get_user_schedule(last.sid)[j]
          IN /\ a.schedule_type = "recurring"
             /\ a.status = "pending"
             /\ a.execution_count = 1
             /\ a.last_executed = clock
             /\ b.schedule_type # "recurring"
             /\ b.status = "executed"
             /\ b.execution_count = 1

----------------------------------------------------------------------------
(* check_x402_url over the responses: the response is drawn at the start *)

InitProbe ==
    /\ sessions = EmptyMap
    /\ approving = EmptyMap
    /\ hist = EmptyMap
    /\ batches = EmptyMap
    /\ bhist = EmptyMap
    /\ last = NoCall
    /\ user_schedules = EmptyMap
    /\ clock = 0
    /\ fired = EmptyMap
    /\ cycling = EmptyMap
    /\ http_response \in Responses
    /\ parsed = NotProbed

NextProbe == \E url \in Urls : probe(url)

SpecProbe == InitProbe /\ [][NextProbe]_vars

----------------------------------------------------------------------------
(* Both session registries, with starts on ids that are already in use *)

\* start_session on an id used before: the registry entry is replaced, and
\* the history of the id starts again, with "restart" as its first call
start_session_again(sid, user, url, task, result, response) ==
    LET init == initial_state(sid, user, url, task)
        raises == /\ should_negotiate(check_url_node(init, result)) = "negotiate"
                  /\ response = "RAISE"
    IN  /\ MayCall(sid)
        /\ sessions' = IF raises THEN sessions
                       ELSE Put(sessions, sid, RunFromEntry(init, result, response))
        /\ hist' = IF raises THEN hist
                   ELSE Put(hist, sid, <<Call("restart", task, result.kind, None)>>)
        /\ last' = [op |-> "start", sid |-> sid, raised |-> raises,
                    error |-> IF raises THEN "advisory" ELSE None]
        /\ UNCHANGED <<probeVars, schedVars, approving, batches, bhist>>

\* start_batch on an id used before; its history starts again with "restart"
start_batch_again(sid, user, payments) ==
    /\ MayCallBatch(sid)
    /\ batches' = Put(batches, sid,
                      prepare_batch_node(batch_initial_state(sid, user, payments)))
    /\ bhist' = Put(bhist, sid, <<BCall("restart", 0, FALSE)>>)
    /\ last' = [op |-> "start_batch", sid |-> sid, raised |-> FALSE, error |-> None]
    /\ UNCHANGED <<probeVars, schedVars, sessions, approving, hist>>

NextRegistry ==
    \/ \E sid \in SessionIds, user \in Users, url \in Urls, task \in TaskTypes :
         \E result \in check_x402_url(url), response \in AdvisoryTexts \cup {"RAISE"} :
            \/ start_session(sid, user, url, task, result, response)
            \/ start_session_again(sid, user, url, task, result, response)
    \/ \E sid \in SessionIds : approve_payment_not_found(sid)
    \/ \E sid \in SessionIds, tx \in TxHashes : confirm_transaction_not_found(sid, tx)
    \/ \E sid \in SessionIds : cancel_session(sid)
    \/ \E sid \in BatchIds, user \in Users, payments \in LegLists :
            \/ start_batch(sid, user, payments)
            \/ start_batch_again(sid, user, payments)
    \/ \E sid \in BatchIds : approve_and_execute_not_found(sid)
    \/ \E sid \in BatchIds, i \in Indices : confirm_payment_raises(sid, i)

SpecRegistry == Init /\ [][NextRegistry]_vars


\* payment.get('recurring_interval_seconds', 86400), in time units
DefaultInterval == 86400 \div 1800

\* C21: a cycle over a pending recurring entry that was stored without an
\* interval and was executed before returns, and fires the entry exactly when
\* now - last_executed >= 24 hours
C21_DefaultIntervalUsed ==
    [][\A u \in DOMAIN user_schedules :
         (/\ last'.op = "check_and_execute"
          /\ last'.sid = u
          /\ Len(user_schedules[u]) = 1
          /\ user_schedules[u][1].schedule_type = "recurring"
          /\ user_schedules[u][1].recurring_interval_seconds = NoneTime
          /\ user_schedules[u][1].status = "pending"
          /\ user_schedules[u][1].last_executed # NoneTime) =>
            /\ ~last'.raised
            /\ FiredIn(u, user_schedules[u][1].id) <=>
                  clock - user_schedules[u][1].last_executed >= DefaultInterval
      ]_vars
----------------------------------------------------------------------------
(* Two ids in each registry; the same two strings name sessions and batches *)

FrameIds == {"a", "b"}

FrameResults(url) == {r \in check_x402_url(url) : r.kind = "demand"}

FrameLegLists == {<<leg>> : leg \in Legs}

\* at most MaxFrameCalls calls on a session, or on a batch, after its start
FrameRoom(sid) == sid \in DOMAIN hist /\ Len(hist[sid]) <= MaxFrameCalls

FrameRoomBatch(sid) == sid \in DOMAIN bhist /\ Len(bhist[sid]) < MaxFrameCalls

NextFrame ==
    \/ \E sid \in FrameIds, user \in Users, url \in Urls :
         \E result \in FrameResults(url) :
            \/ start_session(sid, user, url, "pay", result, "acceptable")
            \/ start_session_again(sid, user, url, "pay", result, "acceptable")
    \/ \E sid \in FrameIds : FrameRoom(sid) /\ approve_payment_begin(sid)
    \/ \E sid \in FrameIds : approve_payment_finish(sid)
    \/ \E sid \in FrameIds : FrameRoom(sid) /\ confirm_transaction(sid, "0xabc")
    \/ \E sid \in FrameIds : FrameRoom(sid) /\ cancel_session(sid)
    \/ \E sid \in FrameIds, user \in Users, payments \in FrameLegLists :
            \/ start_batch(sid, user, payments)
            \/ start_batch_again(sid, user, payments)
    \/ \E sid \in FrameIds : FrameRoomBatch(sid) /\ approve_and_execute(sid)
    \/ \E sid \in FrameIds, success \in BOOLEAN :
            FrameRoomBatch(sid) /\ confirm_payment(sid, 0, "0xabc", success)

SpecFrame == Init /\ [][NextFrame]_vars

----------------------------------------------------------------------------
(* Claims on the failure paths of the session runners *)

\* C16: start never raises and always registers the session, also when the
\* advisory call of a negotiate task fails
C16_StartAlwaysRegisters ==
    last.op = "start" => (~last.raised /\ last.sid \in DOMAIN sessions)

\* C17: approve_payment and confirm_transaction on an id that is not in
\* sessions, and approve_and_execute and confirm_payment on an id that is not
\* in the batch registry, raise not-found and leave both registries as they
\* were; start_session and start_batch never raise not-found, on a fresh id or
\* on one in use, and register the session when they return
C17_NotFoundLeavesRegistries ==
    [][/\ (last'.op \in {"approve", "confirm"} /\ last'.sid \notin DOMAIN sessions) =>
            /\ last'.raised
            /\ last'.error = "not_found"
            /\ sessions' = sessions
            /\ batches' = batches
       /\ (/\ last'.op \in {"approve_and_execute", "confirm_payment"}
           /\ last'.sid \notin DOMAIN batches) =>
            /\ last'.raised
            /\ last'.error = "not_found"
            /\ sessions' = sessions
            /\ batches' = batches
       /\ last'.op = "start" =>
            /\ last'.error # "not_found"
            /\ ~last'.raised => last'.sid \in DOMAIN sessions'
       /\ last'.op = "start_batch" =>
            /\ ~last'.raised
            /\ last'.sid \in DOMAIN batches'
      ]_vars

\* confirm_transaction has just been rejected on an id that was started on
\* an id in use and then cancelled, while a batch is registered
C17_Witness ==
    /\ last.op = "confirm"
    /\ last.error = "not_found"
    /\ last.sid \notin DOMAIN sessions
    /\ last.sid \in DOMAIN hist
    /\ hist[last.sid][1].op = "restart"
    /\ batches # EmptyMap

----------------------------------------------------------------------------
(* Claims on check_x402_url *)

Probed == parsed # NotProbed

\* the primary header is an x402 header holding key=value for this key
PrimarySupplies(key, val) ==
    /\ Lower(http_response.www_auth.scheme) = "x402"
    /\ \E i \in 1..Len(http_response.www_auth.parts) :
          /\ http_response.www_auth.parts[i].eq
          /\ http_response.www_auth.parts[i].key = key
          /\ http_response.www_auth.parts[i].val = val

\* C18: when the primary x402 header supplies amount, token and receiver, the
\* parsed demand carries exactly those values, whatever the Payment-Amount and
\* Accept-Payment headers and the body hold
C18_PrimaryHeaderWins ==
    (Probed /\ http_response.status = 402 /\ parsed.kind = "demand") =>
        \A a, t, rcv \in {"10", "DAI", "0xRecv"} :
            (/\ PrimarySupplies("amount", a)
             /\ PrimarySupplies("token", t)
             /\ PrimarySupplies("receiver", rcv)) =>
                /\ parsed.payment_request.amount = a
                /\ parsed.payment_request.token = t
                /\ parsed.payment_request.receiver = rcv

\* C19: for a response with status 402 check_x402_url returns
\* requires_payment = True, with a demand or with the parse error
C19_Status402RequiresPayment ==
    (Probed /\ http_response.exc = None /\ http_response.status = 402) =>
        /\ parsed.requires_payment
        /\ parsed.kind \in {"demand", "parse_error"}

----------------------------------------------------------------------------
(* Further claims on the single-payment sessions *)

\* the session has just been started with this task on a url giving this
\* kind of probe result, and no call was made on it since
JustStarted(sid, task, kind) ==
    /\ sid \in DOMAIN sessions
    /\ Len(hist[sid]) = 1
    /\ hist[sid][1].op = "start"
    /\ hist[sid][1].task = task
    /\ hist[sid][1].kind = kind

\* C25: a session started with task negotiate on a url that yields a demand
\* holds exactly one negotiation history entry, with the demand's amount and
\* the advisory text, and exactly one negotiation message after the message of
\* the probe; its status is awaiting_approval and the approval flag is false,
\* whatever the advisory text
C25_NegotiateOnce ==
    \A sid \in SessionIds :
        JustStarted(sid, "negotiate", "demand") =>
            LET s == sessions[sid]
            IN /\ Len(s.negotiation_history) = 1
               /\ s.negotiation_history[1].original_amount = s.payment_request.amount
               /\ s.negotiation_history[1].agent_response \in AdvisoryTexts
               /\ Len(s.messages) = 3
               /\ s.messages[2].tag = "requires_payment"
               /\ s.messages[3].tag = "negotiation"
               /\ s.messages[3].text = s.negotiation_history[1].agent_response
               /\ s.status = "awaiting_approval"
               /\ ~s.user_approved
               /\ s.error = None
               /\ s.tx_hash = None

C25_Witness ==
    \E sid \in SessionIds :
        /\ JustStarted(sid, "negotiate", "demand")
        /\ sessions[sid].negotiation_history[1].agent_response = "acceptable"
        /\ sessions[sid].status = "awaiting_approval"

\* C26: every confirm_transaction on a registered session, whatever its
\* state, sets status completed and tx_hash to the reference given, appends
\* one message to the log and changes no other field; so after any sequence
\* of confirms the reference is that of the last one
C26_ConfirmLastWriteWins ==
    [][\A sid \in SessionIds :
         StepIs(sid, "confirm") =>
            LET tx == hist'[sid][Len(hist'[sid])].tx
                s == sessions[sid]
                t == sessions'[sid]
            IN /\ t = [s EXCEPT !.tx_hash = tx, !.status = "completed",
                                !.messages = t.messages]
               /\ Len(t.messages) = Len(s.messages) + 1
               /\ SubSeq(t.messages, 1, Len(s.messages)) = s.messages
      ]_vars

\* two confirms in a row with different references, the second one stored
C26_Witness ==
    \E sid \in DOMAIN sessions :
        /\ Len(hist[sid]) >= 3
        /\ hist[sid][Len(hist[sid])].op = "confirm"
        /\ hist[sid][Len(hist[sid]) - 1].op = "confirm"
        /\ hist[sid][Len(hist[sid])].tx # hist[sid][Len(hist[sid]) - 1].tx
        /\ Truthy(hist[sid][Len(hist[sid]) - 1].tx)
        /\ sessions[sid].tx_hash = hist[sid][Len(hist[sid])].tx
        /\ sessions[sid].status = "completed"

\* the number of EXECUTE_PAYMENT intents among the messages
CountIntents(msgs) ==
    Cardinality({i \in 1..Len(msgs) : msgs[i].tag = "EXECUTE_PAYMENT"})

\* C32: the messages of a session hold at most one EXECUTE_PAYMENT intent,
\* none when the session has no payment request, and no call on a session
\* whose status is completed or failed adds one
C32_OneIntentPerSession ==
    [][\A sid \in DOMAIN sessions' :
         /\ CountIntents(sessions'[sid].messages) <= 1
         /\ sessions'[sid].payment_request = NonePayment =>
                CountIntents(sessions'[sid].messages) = 0
         /\ (sid \in DOMAIN sessions /\ sessions[sid].status \in {"completed", "failed"}) =>
                CountIntents(sessions'[sid].messages) <= CountIntents(sessions[sid].messages)
      ]_vars

----------------------------------------------------------------------------
(* Further claims on the batch sessions *)

\* the EXECUTE_PAYMENT intents among the messages, in their order
IntentMessages(msgs) == SelectSeq(msgs, LAMBDA x : x.tag = "EXECUTE_PAYMENT")

\* C27: the first approve_and_execute on a prepared batch of N >= 1 legs
\* appends N EXECUTE_PAYMENT intents in leg order, the i-th with index i
\* (from 0) and the payload of leg i, and nothing else to the log; it appends
\* N records to completed_payments in the same order, each
\* pending_confirmation; requires_approval is cleared, the status is
\* awaiting_approval and failed_payments is empty
C27_ApproveEmitsInOrder ==
    [][\A sid \in BatchIds :
         (/\ BatchStepIs(sid, "approve")
          /\ bhist[sid] = <<>>
          /\ batches[sid].status = "awaiting_approval") =>
            LET b == batches[sid]
                c == batches'[sid]
                N == Len(b.payments)
            IN /\ N >= 1
               /\ b.requires_approval
               /\ Len(c.messages) = Len(b.messages) + N
               /\ SubSeq(c.messages, 1, Len(b.messages)) = b.messages
               /\ \A i \in 1..N :
                     /\ c.messages[Len(b.messages) + i].tag = "EXECUTE_PAYMENT"
                     /\ c.messages[Len(b.messages) + i].index = i - 1
                     /\ c.messages[Len(b.messages) + i].payment = b.payments[i]
               /\ Len(c.completed_payments) = N
               /\ \A i \in 1..N :
                     /\ c.completed_payments[i].status = "pending_confirmation"
                     /\ c.completed_payments[i].recipient = b.payments[i].recipient
                     /\ c.completed_payments[i].amount = b.payments[i].amount
                     /\ c.completed_payments[i].token = b.payments[i].token
               /\ ~c.requires_approval
               /\ c.status = "awaiting_approval"
               /\ c.failed_payments = <<>>
               /\ c.payments = b.payments
      ]_vars

\* a batch of two different legs just after its first approve_and_execute
C27_Witness ==
    \E sid \in DOMAIN batches :
        /\ Len(bhist[sid]) = 1
        /\ bhist[sid][1].op = "approve"
        /\ Len(batches[sid].payments) = 2
        /\ batches[sid].payments[1] # batches[sid].payments[2]
        /\ Len(IntentMessages(batches[sid].messages)) = 2
        /\ Len(batches[sid].completed_payments) = 2

\* C29: a batch of N >= 1 legs whose aggregate status is completed has a
\* record in completed_payments, so that no confirm_payment made before
\* approve_and_execute completes a prepared batch
C29_CompletedWasExecuted ==
    \A sid \in DOMAIN batches :
        (/\ Len(batches[sid].payments) >= 1
         /\ batches[sid].status = "completed") =>
            batches[sid].completed_payments # <<>>

\* C30: the EXECUTE_PAYMENT messages of a batch and the records of its
\* completed_payments each number at most its legs
C30_OneIntentPerLeg ==
    \A sid \in DOMAIN batches :
        /\ Cardinality(BatchIntents(batches[sid])) <= Len(batches[sid].payments)
        /\ Len(batches[sid].completed_payments) <= Len(batches[sid].payments)

\* C31: a record of completed_payments is in failed_payments exactly when its
\* status is failed, no record is there twice, and a record with status failed
\* has no tx_hash
C31_FailedMatchesStatus ==
    \A sid \in DOMAIN batches :
        LET b == batches[sid]
            InFailed(k) == \E j \in 1..Len(b.failed_payments) : b.failed_payments[j] = k
        IN  /\ \A k \in 1..Len(b.completed_payments) :
                  /\ InFailed(k) <=> b.completed_payments[k].status = "failed"
                  /\ b.completed_payments[k].status = "failed" =>
                        b.completed_payments[k].tx_hash = None
            /\ \A i, j \in 1..Len(b.failed_payments) :
                  i # j => b.failed_payments[i] # b.failed_payments[j]

\* C33: for every stored schedule entry, execution_count is the number of
\* execution intents emitted for its id over all cycles, last_executed is set
\* exactly when execution_count > 0, an immediate or scheduled entry has
\* execution_count <= 1, and an entry with status executed has
\* execution_count = 1
C33_BookkeepingMatchesIntents ==
    \A u \in DOMAIN user_schedules : \A i \in 1..Len(user_schedules[u]) :
        LET e == user_schedules[u][i]
        IN /\ e.execution_count = Len(FiredTimes(e.id))
           /\ (e.last_executed # NoneTime) <=> (e.execution_count > 0)
           /\ e.schedule_type \in {"immediate", "scheduled"} => e.execution_count <= 1
           /\ e.status = "executed" => e.execution_count = 1

\* a recurring entry fired by two cycles beside an immediate entry fired by
\* one, after a later cycle of their payer
C33_Witness ==
    \E u \in DOMAIN user_schedules : \E i, j \in 1..Len(user_schedules[u]) :
        LET r == user_schedules[u][i]
            e == user_schedules[u][j]
        IN /\ r.schedule_type = "recurring"
           /\ r.execution_count = 2
           /\ Len(FiredTimes(r.id)) = 2
           /\ FiredTimes(r.id)[1] < FiredTimes(r.id)[2]
           /\ e.schedule_type = "immediate"
           /\ e.status = "executed"
           /\ e.execution_count = 1
           /\ e.last_executed # NoneTime
           /\ last.op = "check_and_execute"
           /\ last.sid = u

----------------------------------------------------------------------------
(* Claims on calls arriving inside another call *)

\* C22: when an entry that the eligibility pass of a running cycle found due
\* has been cancelled since, the cycle does not leave it in status executed
\* and emits no execution intent for it
C22_CancelInsideCycle ==
    [][\A u \in DOMAIN cycling :
         (last'.op = "check_and_execute" /\ last'.sid = u /\ u \in DOMAIN user_schedules) =>
            \A i \in 1..Len(user_schedules[u]) :
                (/\ user_schedules[u][i].status = "cancelled"
                 /\ InSeq(cycling[u].state.pending_executions, user_schedules[u][i].id)) =>
                    /\ user_schedules'[u][i].status # "executed"
                    /\ IntentsFor(last'.result.messages, user_schedules[u][i].id) = {}
      ]_vars

StoredIdsOf(schedule) == {schedule[i].id : i \in 1..Len(schedule)}

\* C24: when a cycle of a payer writes its results back, every entry that was
\* in the payer's list before the write is in it afterwards, also one that
\* add_scheduled_payment stored while the cycle was under way
C24_AddInsideCycleKept ==
    [][\A u \in DOMAIN cycling :
         (last'.op = "check_and_execute" /\ last'.sid = u) =>
            StoredIdsOf(get_user_schedule(u)) \subseteq StoredIdsOf(user_schedules'[u])
      ]_vars

\* the confirm calls made on sid since its approve_payment call was suspended
ConfirmsInsideApprove(sid) ==
    {k \in 1..Len(hist[sid]) :
        /\ hist[sid][k].op = "confirm"
        /\ \E j \in 1..(k - 1) :
              /\ hist[sid][j].op = "approve_begin"
              /\ \A n \in (j + 1)..Len(hist[sid]) : hist[sid][n].op # "approve_finish"}

\* C23: when confirm_transaction ran while approve_payment on the same session
\* was suspended at its await, the session stored when approve_payment returns
\* has status completed and the settlement reference of the last such confirm
C23_ConfirmInsideApproveKept ==
    [][\A sid \in SessionIds :
         (/\ StepIs(sid, "approve_finish")
          /\ ConfirmsInsideApprove(sid) # {}) =>
            LET k == CHOOSE k \in ConfirmsInsideApprove(sid) :
                        \A n \in ConfirmsInsideApprove(sid) : n <= k
            IN /\ sessions'[sid].status = "completed"
               /\ sessions'[sid].tx_hash = hist[sid][k].tx
      ]_vars

----------------------------------------------------------------------------
(* Claims on sessions with different ids *)

SessionOps == {"start", "approve", "confirm", "cancel"}

BatchOps == {"start_batch", "approve_and_execute", "confirm_payment"}

\* C28: a call on session id A changes no snapshot stored under another id in
\* sessions and none at all in the batch registry, a call on batch id A none
\* under another id in the batch registry and none in sessions; a session
\* leaves sessions only by a cancel on its id, a batch never leaves, and an id
\* enters a registry only in a call on that id
C28_OtherSessionsUnchanged ==
    [][/\ \A b \in DOMAIN sessions :
            /\ b \in DOMAIN sessions' \/ (last'.op = "cancel" /\ last'.sid = b)
            /\ (last'.sid # b \/ last'.op \notin SessionOps) =>
                    (b \in DOMAIN sessions' /\ sessions'[b] = sessions[b])
       /\ \A b \in DOMAIN batches :
            /\ b \in DOMAIN batches'
            /\ (last'.sid # b \/ last'.op \notin BatchOps) => batches'[b] = batches[b]
       /\ \A b \in DOMAIN sessions' \ DOMAIN sessions :
            last'.op \in SessionOps /\ last'.sid = b
       /\ \A b \in DOMAIN batches' \ DOMAIN batches :
            last'.op = "start_batch" /\ last'.sid = b
      ]_vars

\* a confirm on session "a" has just run while session "b" is as its start
\* left it and a batch is registered under "a"
C28_Witness ==
    /\ last.op = "confirm"
    /\ last.sid = "a"
    /\ "a" \in DOMAIN sessions
    /\ "b" \in DOMAIN sessions
    /\ sessions["a"].status = "completed"
    /\ sessions["b"].status = "awaiting_approval"
    /\ sessions["b"].tx_hash = None
    /\ "a" \in DOMAIN batches
====
